---- MODULE Spec2Model ----
(***************************************************************************)
(* A model of angr's Project (src/angr/project.py): the registry of        *)
(* SimProcedures, the import binder use_sim_procedures, the dispatcher     *)
(* sim_run / sim_block; and of two pieces of the Soot (Java) engine: the   *)
(* java.util.Iterator SimProcedures and string-constant materialization.   *)
(*                                                                         *)
(* Addresses are unsigned integers of arch.bits bits.  They are written    *)
(* as tuples of bytes, most significant byte first (base-256 numerals),    *)
(* so that 32- and 64-bit values keep their full width.                    *)
(***************************************************************************)
EXTENDS Integers, Sequences, FiniteSets, TLC

\* Bound on the number of registry-writing calls in one behaviour.
MaxOps == 2

(***************************************************************************)
(* Python values                                                           *)
(***************************************************************************)
\* The kwargs argument None (a dict is a function from keys to values).
None == ("None" :> "None")
\* The empty dict {}.
EmptyDict == [k \in {} |-> "None"]

Put(f, k, v) == [x \in (DOMAIN f) \cup {k} |-> IF x = k THEN v ELSE f[x]]

RECURSIVE Reverse(_)
Reverse(s) == IF s = <<>> THEN <<>> ELSE Reverse(Tail(s)) \o <<Head(s)>>

\* list.remove(x): drops the first occurrence; the list is unchanged if there
\* is none (the caller models the ValueError).
RECURSIVE RemoveFirst(_, _)
RemoveFirst(s, x) ==
  IF s = <<>> THEN <<>>
  ELSE IF Head(s) = x THEN Tail(s)
  ELSE <<Head(s)>> \o RemoveFirst(Tail(s), x)

InSeq(x, s) == \E k \in 1..Len(s) : s[k] = x

\* Python's "sub in s" on strings.
Contains(s, sub) ==
  \E k \in 1..(Len(s) - Len(sub) + 1) : SubSeq(s, k, k + Len(sub) - 1) = sub

\* a <= b on two addresses of the same width.
RECURSIVE AddrLeq(_, _)
AddrLeq(a, b) ==
  IF a = <<>> THEN TRUE
  ELSE IF Head(a) # Head(b) THEN Head(a) < Head(b)
  ELSE AddrLeq(Tail(a), Tail(b))

\* addr % n for an n that divides 256: decided by the lowest byte.
AddrMod(addr, n) == addr[Len(addr)] % n

(***************************************************************************)
(* simuvex: the architectures and the SimProcedure libraries               *)
(***************************************************************************)
Architectures ==
  { [name |-> "X86",   bits |-> 32, struct_fmt |-> "<I", instruction_alignment |-> 1],
    [name |-> "ARMEL", bits |-> 32, struct_fmt |-> "<I", instruction_alignment |-> 4],
    [name |-> "PPC64", bits |-> 64, struct_fmt |-> ">Q", instruction_alignment |-> 4] }

Class(lib, name) == <<lib, name>>

\* simuvex.procedures.SimProcedures: library name -> symbol name -> class.
SimProcedures ==
  [lib \in {"libc.so.6", "ld-linux.so.2", "stubs", "syscalls"} |->
     CASE lib = "libc.so.6" ->
            [s \in {"__libc_start_main", "malloc", "exit", "__tls_get_addr"} |-> Class(lib, s)]
       [] lib = "ld-linux.so.2" ->
            [s \in {"__tls_get_addr"} |-> Class(lib, s)]
       [] lib = "stubs" ->
            [s \in {"ReturnUnconstrained"} |-> Class(lib, s)]
       [] lib = "syscalls" ->
            [s \in {"handler"} |-> Class(lib, s)]]

\* A SimProcedure class written by the user of the project.
UserHook == Class("user", "MyHook")

(***************************************************************************)
(* md5: the digests of the strings that are hashed in this model           *)
(***************************************************************************)
Md5Digest(s) ==
  CASE s = "libc.so.6___libc_start_main" -> <<21, 255, 186, 90, 9, 64, 8, 214, 162, 231, 170, 126, 45, 163, 248, 126>>
    [] s = "libc.so.6_malloc" -> <<218, 40, 102, 206, 173, 135, 80, 169, 65, 8, 188, 195, 223, 239, 136, 121>>
    [] s = "libc.so.6___tls_get_addr" -> <<187, 8, 182, 111, 24, 38, 101, 122, 46, 36, 73, 124, 134, 181, 9, 229>>
    [] s = "libc.so.6_foo" -> <<74, 243, 152, 98, 66, 2, 125, 49, 154, 60, 3, 147, 242, 161, 164, 99>>
    [] s = "libc.so.6_bar" -> <<39, 128, 221, 230, 242, 231, 42, 65, 126, 212, 89, 71, 73, 120, 117, 89>>
    [] s = "ld-linux.so.2___libc_start_main" -> <<164, 33, 151, 12, 42, 231, 72, 117, 36, 71, 121, 131, 191, 113, 167, 28>>
    [] s = "ld-linux.so.2_malloc" -> <<65, 101, 245, 177, 238, 65, 250, 165, 54, 21, 210, 46, 192, 108, 244, 150>>
    [] s = "ld-linux.so.2___tls_get_addr" -> <<149, 176, 144, 101, 32, 139, 113, 33, 145, 53, 118, 71, 230, 141, 8, 254>>
    [] s = "ld-linux.so.2_foo" -> <<97, 211, 255, 155, 242, 186, 150, 187, 143, 241, 107, 221, 20, 42, 229, 212>>
    [] s = "ld-linux.so.2_bar" -> <<128, 136, 125, 51, 102, 96, 4, 155, 233, 27, 220, 210, 237, 205, 199, 167>>
    [] s = "stubs___libc_start_main" -> <<214, 146, 122, 155, 16, 228, 26, 230, 200, 2, 61, 148, 108, 114, 16, 220>>
    [] s = "stubs_malloc" -> <<180, 206, 135, 45, 50, 102, 142, 198, 66, 183, 9, 155, 153, 56, 190, 33>>
    [] s = "stubs___tls_get_addr" -> <<14, 147, 49, 214, 13, 41, 176, 68, 145, 245, 244, 211, 50, 166, 243, 22>>
    [] s = "stubs_foo" -> <<158, 49, 113, 164, 60, 6, 171, 214, 218, 140, 211, 19, 95, 61, 252, 169>>
    [] s = "stubs_bar" -> <<55, 16, 225, 116, 134, 172, 61, 130, 53, 121, 248, 68, 9, 92, 196, 251>>
    [] s = "__libc_start_main:exit" -> <<202, 191, 93, 153, 23, 208, 100, 127, 123, 128, 246, 251, 25, 3, 87, 74>>

(***************************************************************************)
(* The state of a Project                                                  *)
(***************************************************************************)
VARIABLES
  arch,                     \* self.arch
  ld,                       \* self.ld: what the loader (cle) knows of the objects
  exclude_sim_procedures,   \* self._exclude_sim_procedures
  exclude_fn,               \* self._exclude_sim_procedure (None or a predicate)
  ignore_functions,         \* self.ignore_functions
  sim_procedures,           \* self.sim_procedures: address -> (class, kwargs)
  got,                      \* the loader's GOT entries overridden per object
  ida_imports,              \* the imports resolved per IdaBin object
  alloc_log,                \* history: every (lib, func_name, pseudo_addr) computed
  ops,                      \* history: number of registry-writing calls so far
  last,                     \* history: the last call, its arguments and outcome
  workers,                  \* the threads inside set_sim_procedure: arguments and position
  javavm_memory,            \* the Soot state's memory: fields of objects and arrays
  it_hist,                  \* history: the collection as created, the calls made, the last call
  soot_memory,              \* the Soot state's memory of string references
  str_hist                  \* history: the string constants executed, (literal, expr)

projVars == <<arch, ld, exclude_sim_procedures, exclude_fn, ignore_functions,
              sim_procedures, got, ida_imports, alloc_log, ops, last, workers>>

session == <<arch, ld, exclude_sim_procedures, exclude_fn, ignore_functions>>

javaVars == <<javavm_memory, it_hist, soot_memory, str_hist>>

\* [self.main_binary] + self.ld.shared_objects
Objects == <<"main", "libfoo.so">>
ObjectSet == {Objects[k] : k \in 1..Len(Objects)}

(***************************************************************************)
(* set_sim_procedure and the registry                                      *)
(***************************************************************************)
\* struct.unpack(fmt, bytes)[0] for the formats "<I", ">I", "<Q", ">Q".
Unpack(fmt, bytes) ==
  IF SubSeq(fmt, 1, 1) = "<" THEN Reverse(bytes) ELSE bytes

\* (x / 4) * 4 in Python 2 integer arithmetic.
AlignDown(x) == [x EXCEPT ![Len(x)] = (@ \div 4) * 4]

\* Breaks the alignment: the hash is used as it is.
PseudoAddrUnaligned(key) ==
  Unpack(arch.struct_fmt, SubSeq(Md5Digest(key), 1, arch.bits \div 8))

\* Breaks purity: the address moves with the number of registered procedures.
PseudoAddrByCount(key) ==
  LET x == Unpack(arch.struct_fmt, SubSeq(Md5Digest(key), 1, arch.bits \div 8))
  IN  [x EXCEPT ![Len(x)] = (((@ \div 4) + Cardinality(DOMAIN sim_procedures)) % 64) * 4]

\* The hashed address of the string key.
PseudoAddr(key) ==
  LET hashed_bytes == SubSeq(Md5Digest(key), 1, arch.bits \div 8)
  IN  AlignDown(Unpack(arch.struct_fmt, hashed_bytes))

is_sim_procedure(sp, hashed_addr) == hashed_addr \in DOMAIN sp

\* The entry is patched to the word after the address.
update_jmpslot_next_word(st, func_name, pseudo_addr, binary) ==
  [st EXCEPT !.got[binary] =
     Put(@, func_name, [pseudo_addr EXCEPT ![Len(pseudo_addr)] = (@ + 4) % 256])]

\* self.ld.override_got_entry(func_name, pseudo_addr, binary)
update_jmpslot_with_simprocedure(st, func_name, pseudo_addr, binary) ==
  [st EXCEPT !.got[binary] = Put(@, func_name, pseudo_addr)]

\* The check for a different class is gone: the last writer wins.
set_sim_procedure_overwrite(st, binary, lib, func_name, sim_proc, kwargs0) ==
  LET pseudo_addr == PseudoAddr(lib \o "_" \o func_name)
      kwargs == IF kwargs0 = None THEN EmptyDict ELSE kwargs0
      st1 == [st EXCEPT !.log = @ \cup {<<lib, func_name, pseudo_addr>>},
                        !.calls = @ \cup {[binary |-> binary, lib |-> lib, func_name |-> func_name,
                                           sim_proc |-> sim_proc, wrote |-> TRUE]}]
      needs_exit == func_name = "__libc_start_main" /\ "exit_addr" \notin DOMAIN kwargs
      pseudo_addr_ == PseudoAddr("__libc_start_main:exit")
      sp1 == IF needs_exit
             THEN Put(st.sp, pseudo_addr_,
                      [proc |-> SimProcedures["libc.so.6"]["exit"], kwargs |-> EmptyDict])
             ELSE st.sp
      kwargs1 == IF needs_exit THEN kwargs @@ ("exit_addr" :> pseudo_addr_) ELSE kwargs
      st2 == [st1 EXCEPT !.sp = Put(sp1, pseudo_addr, [proc |-> sim_proc, kwargs |-> kwargs1])]
  IN  IF ld.ida[binary]
      THEN [st2 EXCEPT !.ida[binary] = Put(@, func_name, pseudo_addr)]
      ELSE update_jmpslot_with_simprocedure(st2, func_name, pseudo_addr, binary)

\* The test of set_sim_procedure for an address that holds another class.
set_sim_procedure_refused(sp, pseudo_addr, sim_proc) ==
  pseudo_addr \in DOMAIN sp /\ sp[pseudo_addr].proc # sim_proc

\* The exit dependency is bound only where its address is free.
set_sim_procedure_write_if_free(st, binary, lib, func_name, sim_proc, kwargs) ==
  LET pseudo_addr == PseudoAddr(lib \o "_" \o func_name)
      needs_exit == func_name = "__libc_start_main" /\ "exit_addr" \notin DOMAIN kwargs
      pseudo_addr_ == PseudoAddr("__libc_start_main:exit")
      sp1 == IF needs_exit /\ pseudo_addr_ \notin DOMAIN st.sp
             THEN Put(st.sp, pseudo_addr_,
                      [proc |-> SimProcedures["libc.so.6"]["exit"], kwargs |-> EmptyDict])
             ELSE st.sp
      kwargs1 == IF needs_exit THEN kwargs @@ ("exit_addr" :> pseudo_addr_) ELSE kwargs
      st2 == [st EXCEPT !.sp = Put(sp1, pseudo_addr, [proc |-> sim_proc, kwargs |-> kwargs1])]
  IN  IF ld.ida[binary]
      THEN [st2 EXCEPT !.ida[binary] = Put(@, func_name, pseudo_addr)]
      ELSE update_jmpslot_with_simprocedure(st2, func_name, pseudo_addr, binary)

\* What set_sim_procedure does once the test has passed: the special case of
\* __libc_start_main, the write of the entry and the patch of the jump table.
set_sim_procedure_write(st, binary, lib, func_name, sim_proc, kwargs) ==
  LET pseudo_addr == PseudoAddr(lib \o "_" \o func_name)
      needs_exit == func_name = "__libc_start_main" /\ "exit_addr" \notin DOMAIN kwargs
      pseudo_addr_ == PseudoAddr("__libc_start_main:exit")
      sp1 == IF needs_exit
             THEN Put(st.sp, pseudo_addr_,
                      [proc |-> SimProcedures["libc.so.6"]["exit"], kwargs |-> EmptyDict])
             ELSE st.sp
      kwargs1 == IF needs_exit THEN kwargs @@ ("exit_addr" :> pseudo_addr_) ELSE kwargs
      st2 == [st EXCEPT !.sp = Put(sp1, pseudo_addr, [proc |-> sim_proc, kwargs |-> kwargs1]),
                        !.log = IF needs_exit
                                THEN @ \cup {<<"__libc_start_main", "exit", pseudo_addr_>>}
                                ELSE @]
  IN  IF ld.ida[binary]
      THEN [st2 EXCEPT !.ida[binary] = Put(@, func_name, pseudo_addr)]
      ELSE update_jmpslot_with_simprocedure(st2, func_name, pseudo_addr, binary)

\* The jump table is patched although the binding is refused.
set_sim_procedure_patch_refused(st, binary, lib, func_name, sim_proc, kwargs0) ==
  LET pseudo_addr == PseudoAddr(lib \o "_" \o func_name)
      kwargs == IF kwargs0 = None THEN EmptyDict ELSE kwargs0
      refused == set_sim_procedure_refused(st.sp, pseudo_addr, sim_proc)
      st1 == [st EXCEPT !.log = @ \cup {<<lib, func_name, pseudo_addr>>},
                        !.calls = @ \cup {[binary |-> binary, lib |-> lib, func_name |-> func_name,
                                           sim_proc |-> sim_proc, wrote |-> ~refused]}]
  IN  IF refused
      THEN LET st2 == [st1 EXCEPT !.warned = TRUE]
           IN  IF ld.ida[binary]
               THEN [st2 EXCEPT !.ida[binary] = Put(@, func_name, pseudo_addr)]
               ELSE update_jmpslot_with_simprocedure(st2, func_name, pseudo_addr, binary)
      ELSE set_sim_procedure_write(st1, binary, lib, func_name, sim_proc, kwargs)

\* Project.set_sim_procedure on the record st of the fields it reads and
\* writes: sp (self.sim_procedures), got and ida (the loader's tables), log
\* (alloc_log), calls (the calls of set_sim_procedure made so far in the
\* operation, and whether each wrote its entry) and warned (a warning was
\* logged).
set_sim_procedure(st, binary, lib, func_name, sim_proc, kwargs0) ==
  LET pseudo_addr == PseudoAddr(lib \o "_" \o func_name)
      kwargs == IF kwargs0 = None THEN EmptyDict ELSE kwargs0
      refused == set_sim_procedure_refused(st.sp, pseudo_addr, sim_proc)
      st1 == [st EXCEPT !.log = @ \cup {<<lib, func_name, pseudo_addr>>},
                        !.calls = @ \cup {[binary |-> binary, lib |-> lib, func_name |-> func_name,
                                           sim_proc |-> sim_proc, wrote |-> ~refused]}]
  IN  IF refused
      THEN [st1 EXCEPT !.warned = TRUE]
      ELSE set_sim_procedure_write(st1, binary, lib, func_name, sim_proc, kwargs)

\* An address that is bound keeps its entry, whatever the class.
add_custom_sim_procedure(sp, address, sim_proc, kwargs0) ==
  IF address \in DOMAIN sp
  THEN sp
  ELSE Put(sp, address, [proc |-> sim_proc, kwargs |-> IF kwargs0 = None THEN EmptyDict ELSE kwargs0])

\* The fields of self and of the loader that the calls work on.
Fields == [sp |-> sim_procedures, got |-> got, ida |-> ida_imports, log |-> alloc_log,
           calls |-> {}, warned |-> FALSE, unresolved |-> <<>>, err |-> FALSE]

Store(st) ==
  /\ sim_procedures' = st.sp
  /\ got' = st.got
  /\ ida_imports' = st.ida
  /\ alloc_log' = st.log

(***************************************************************************)
(* use_sim_procedures: the import binder                                   *)
(***************************************************************************)
\* The predicate is not consulted.
exclude_sim_procedure_list_only(f) == f \in exclude_sim_procedures

exclude_sim_procedure(f) ==
  (f \in exclude_sim_procedures) \/ (exclude_fn # None /\ f \in exclude_fn.true_for)

LibAlias(lib_name) ==
  IF lib_name = "libc.so.0" THEN "libc.so.6"
  ELSE IF lib_name = "ld-uClibc.so.0" THEN "ld-uClibc.so.6"
  ELSE lib_name

\* __find_sim_libraries over libs, the dependency names in the order in which
\* the set of them is iterated.
RECURSIVE find_sim_libraries(_)
find_sim_libraries(libs) ==
  IF libs = <<>> THEN <<>>
  ELSE LET lib_name == LibAlias(Head(libs))
       IN  (IF lib_name \notin DOMAIN SimProcedures THEN <<>> ELSE <<lib_name>>)
             \o find_sim_libraries(Tail(libs))

\* "for lib in libs" for the import i of obj: every candidate library that
\* has the symbol binds it and removes it from the list.
RECURSIVE BindInLibs(_, _, _, _)
BindInLibs(st, obj, i, libs) ==
  IF libs = <<>> \/ st.err THEN st
  ELSE LET simfun == SimProcedures[Head(libs)]
       IN  IF i \notin DOMAIN simfun
           THEN BindInLibs(st, obj, i, Tail(libs))
           ELSE LET st1 == set_sim_procedure(st, obj, Head(libs), i, simfun[i], None)
                    st2 == IF InSeq(i, st1.unresolved)
                           THEN [st1 EXCEPT !.unresolved = RemoveFirst(@, i)]
                           ELSE [st1 EXCEPT !.err = TRUE]    \* ValueError
                IN  BindInLibs(st2, obj, i, Tail(libs))

\* "for i in functions": the imports that some candidate library models.
RECURSIVE BindResolved(_, _, _, _)
BindResolved(st, obj, functions, libs) ==
  IF functions = <<>> \/ st.err THEN st
  ELSE LET i == Head(functions)
       IN  IF exclude_sim_procedure(i)
           THEN BindResolved(st, obj, Tail(functions), libs)
           ELSE BindResolved(BindInLibs(st, obj, i, libs), obj, Tail(functions), libs)

\* It stays unmodelled when its slot lies inside the object.
LeftToNativeInside(obj, i) ==
  /\ i \in ld.resolved_imports[obj]
  /\ i \notin ignore_functions
  /\ i \in DOMAIN ld.jmprel[obj]
  /\ (AddrLeq(ld.min_addr[obj], ld.jmprel[obj][i]) /\ AddrLeq(ld.jmprel[obj][i], ld.max_addr[obj]))

\* The import i is left to the code that the loader resolved it to: it is
\* resolved, not to be ignored, and its slot lies outside obj.
LeftToNative(obj, i) ==
  /\ i \in ld.resolved_imports[obj]
  /\ i \notin ignore_functions
  /\ i \in DOMAIN ld.jmprel[obj]
  /\ ~(AddrLeq(ld.min_addr[obj], ld.jmprel[obj][i]) /\ AddrLeq(ld.jmprel[obj][i], ld.max_addr[obj]))

\* "for i in unresolved": todo is what is left to visit of the list.
RECURSIVE BindUnresolved(_, _, _)
BindUnresolved(st, obj, todo) ==
  IF todo = <<>> THEN st
  ELSE LET i == Head(todo)
       IN  IF exclude_sim_procedure(i) \/ LeftToNative(obj, i)
           THEN BindUnresolved(st, obj, Tail(todo))
           ELSE BindUnresolved(
                  set_sim_procedure(st, obj, "stubs", i,
                                    SimProcedures["stubs"]["ReturnUnconstrained"],
                                    ("resolves" :> i)),
                  obj, Tail(todo))

\* "for obj in [self.main_binary] + self.ld.shared_objects"; the list
\* unresolved is created once, before the loop.
RECURSIVE BindObjects(_, _, _)
BindObjects(st, objs, libs) ==
  IF objs = <<>> \/ st.err THEN st
  ELSE LET obj == Head(objs)
           functions == ld.imports[obj]
           st1 == [st EXCEPT !.unresolved = @ \o functions]
           st2 == BindResolved(st1, obj, functions, libs)
           st3 == IF st2.err THEN st2 ELSE BindUnresolved(st2, obj, st2.unresolved)
       IN  BindObjects(st3, Tail(objs), libs)

use_sim_procedures(st) ==
  BindObjects([st EXCEPT !.unresolved = <<>>], Objects, find_sim_libraries(ld.dependencies))

(***************************************************************************)
(* Sessions: the projects that are opened                                  *)
(***************************************************************************)
\* A 32-bit address, zero-extended to the width of the architecture a.
Wide(a, b) == [k \in 1..((a.bits \div 8) - 4) |-> 0] \o b

MainMin == <<8, 4, 128, 0>>
MainMax == <<8, 4, 255, 255>>
LibMin == <<64, 0, 0, 0>>
LibMax == <<64, 0, 255, 255>>
\* Where the slot of an import may lie.
InMain == <<8, 4, 160, 16>>
InLib == <<64, 0, 18, 48>>
Outside == <<80, 0, 0, 0>>

DependencyLists ==
  { <<"libc.so.6">>,
    <<"libc.so.6", "ld-linux.so.2">>,
    <<"libc.so.0", "libc.so.6">>,
    <<"libz.so.1", "ld-linux.so.2">> }

\* The loader's view: foo is imported by main, bar by libfoo.so; fooAt and
\* barAt say where their slots lie, and whether the loader resolved them.
Loader(a, deps, fooAt, fooResolved, barAt, barResolved, libIsIda) ==
  [ dependencies |-> deps,
    imports |-> [o \in ObjectSet |->
                   IF o = "main" THEN <<"__libc_start_main", "__tls_get_addr", "foo">>
                   ELSE <<"malloc", "bar">>],
    resolved_imports |-> [o \in ObjectSet |->
                   IF o = "main"
                   THEN {"__libc_start_main", "__tls_get_addr"} \cup (IF fooResolved THEN {"foo"} ELSE {})
                   ELSE {"malloc"} \cup (IF barResolved THEN {"bar"} ELSE {})],
    jmprel |-> [o \in ObjectSet |->
                   IF o = "main"
                   THEN [s \in {"__libc_start_main", "__tls_get_addr", "foo"} |->
                           IF s = "foo" THEN Wide(a, fooAt) ELSE Wide(a, InLib)]
                   ELSE [s \in {"malloc", "bar"} |->
                           IF s = "bar" THEN Wide(a, barAt) ELSE Wide(a, InMain)]],
    min_addr |-> [o \in ObjectSet |-> IF o = "main" THEN Wide(a, MainMin) ELSE Wide(a, LibMin)],
    max_addr |-> [o \in ObjectSet |-> IF o = "main" THEN Wide(a, MainMax) ELSE Wide(a, LibMax)],
    ida |-> [o \in ObjectSet |-> o # "main" /\ libIsIda] ]

X86 == CHOOSE a \in Architectures : a.name = "X86"

Exclusions ==
  { [list |-> {}, fn |-> None, ignore |-> {}],
    [list |-> {"foo"}, fn |-> None, ignore |-> {}],
    [list |-> {}, fn |-> [true_for |-> {"bar"}], ignore |-> {}],
    [list |-> {}, fn |-> None, ignore |-> {"foo"}],
    [list |-> {}, fn |-> [true_for |-> {}], ignore |-> {"bar"}],
    [list |-> {"malloc"}, fn |-> [true_for |-> {"foo"}], ignore |-> {}] }

NoExclusion == [list |-> {}, fn |-> None, ignore |-> {}]

Session(a, l, x) == [arch |-> a, ld |-> l, x |-> x]

\* The sessions: every architecture, every dependency list, every placement
\* of the two unmatched imports, every exclusion, and an IdaBin.
Sessions ==
  { Session(a, Loader(a, <<"libc.so.6">>, InMain, FALSE, InMain, TRUE, FALSE), NoExclusion) :
      a \in Architectures }
  \cup
  { Session(X86, Loader(X86, d, InMain, FALSE, InMain, TRUE, FALSE), NoExclusion) :
      d \in DependencyLists }
  \cup
  { Session(X86, Loader(X86, <<"libc.so.6">>, f[1], f[2], b, TRUE, FALSE), NoExclusion) :
      f \in {<<InMain, TRUE>>, <<InLib, TRUE>>, <<Outside, TRUE>>, <<InLib, FALSE>>},
      b \in {InMain, InLib} }
  \cup
  { Session(X86, Loader(X86, <<"libc.so.6">>, InLib, TRUE, InMain, TRUE, FALSE), x) :
      x \in Exclusions }
  \cup
  { Session(X86, Loader(X86, <<"libc.so.6">>, InLib, TRUE, InMain, TRUE, TRUE), NoExclusion) }

(***************************************************************************)
(* The operations of a Project                                             *)
(***************************************************************************)
\* Two threads may be inside set_sim_procedure at a time.
Workers == {1, 2}

ProjInit(S) ==
  /\ \E s \in S :
       /\ arch = s.arch
       /\ ld = s.ld
       /\ exclude_sim_procedures = s.x.list
       /\ exclude_fn = s.x.fn
       /\ ignore_functions = s.x.ignore
  /\ sim_procedures = EmptyDict
  /\ got = [o \in ObjectSet |-> EmptyDict]
  /\ ida_imports = [o \in ObjectSet |-> EmptyDict]
  /\ alloc_log = {}
  /\ ops = 0
  /\ last = [op |-> "__init__"]
  /\ workers = [proc |-> [w \in Workers |-> [pc |-> "idle", args |-> <<>>]],
                first |-> EmptyDict]

\* What callers pass to set_sim_procedure and add_custom_sim_procedure.
ArgFuncs == {<<"libc.so.6", "__libc_start_main">>, <<"libc.so.6", "foo">>, <<"stubs", "foo">>}
ArgClasses(lib, f) ==
  {UserHook} \cup (IF lib = "stubs" THEN {SimProcedures["stubs"]["ReturnUnconstrained"]}
                   ELSE IF f \in DOMAIN SimProcedures[lib] THEN {SimProcedures[lib][f]}
                   ELSE {SimProcedures["libc.so.6"]["exit"]})
ArgKwargs == {None, ("exit_addr" :> Wide(arch, InMain))}
ArgAddrs == {PseudoAddr("__libc_start_main:exit"), PseudoAddr("stubs_foo"), Wide(arch, InMain)}

UseSimProcedures ==
  /\ ops < MaxOps
  /\ LET st == use_sim_procedures(Fields)
     IN  /\ Store(st)
         /\ last' = [op |-> "use_sim_procedures", err |-> st.err, warned |-> st.warned,
                     calls |-> st.calls,
                     again |-> (last.op = "use_sim_procedures" /\ ~last.err)]
  /\ ops' = ops + 1
  /\ UNCHANGED <<session, workers, javaVars>>

SetSimProcedure ==
  /\ ops < MaxOps
  /\ \E binary \in ObjectSet, f \in ArgFuncs, kwargs \in ArgKwargs :
       \E sim_proc \in ArgClasses(f[1], f[2]) :
         LET lib == f[1]
             func_name == f[2]
             st == set_sim_procedure(Fields, binary, lib, func_name, sim_proc, kwargs)
         IN  /\ Store(st)
             /\ last' = [op |-> "set_sim_procedure", binary |-> binary, lib |-> lib,
                         func_name |-> func_name, sim_proc |-> sim_proc, kwargs |-> kwargs,
                         warned |-> st.warned,
                         was |-> IF PseudoAddr(lib \o "_" \o func_name) \in DOMAIN sim_procedures
                                 THEN <<sim_procedures[PseudoAddr(lib \o "_" \o func_name)]>>
                                 ELSE <<>>]
  /\ ops' = ops + 1
  /\ UNCHANGED <<session, workers, javaVars>>

AddCustomSimProcedure ==
  /\ ops < MaxOps
  /\ \E address \in ArgAddrs, sim_proc \in {UserHook, SimProcedures["stubs"]["ReturnUnconstrained"]},
        kwargs \in {None} :
       /\ sim_procedures' = add_custom_sim_procedure(sim_procedures, address, sim_proc, kwargs)
       /\ last' = [op |-> "add_custom_sim_procedure", address |-> address,
                   sim_proc |-> sim_proc, kwargs |-> kwargs,
                   warned |-> (address \in DOMAIN sim_procedures)]
  /\ ops' = ops + 1
  /\ UNCHANGED <<session, got, ida_imports, alloc_log, workers, javaVars>>

\* A thread enters set_sim_procedure: it hashes the address and tests whether
\* the address holds another class (lines 285-297).  Nothing in the method
\* keeps another thread from running between this test and the writes.
WorkerCheck(w) ==
  /\ workers.proc[w].pc = "idle"
  /\ \E f \in ArgFuncs : \E sim_proc \in ArgClasses(f[1], f[2]) :
       LET pseudo_addr == PseudoAddr(f[1] \o "_" \o f[2])
           refused == set_sim_procedure_refused(sim_procedures, pseudo_addr, sim_proc)
       IN  /\ workers' = [workers EXCEPT !.proc[w] =
                            [pc |-> IF refused THEN "done" ELSE "write",
                             args |-> <<"main", f[1], f[2], sim_proc>>]]
           /\ alloc_log' = alloc_log \cup {<<f[1], f[2], pseudo_addr>>}
  /\ UNCHANGED <<session, sim_procedures, got, ida_imports, ops, last, javaVars>>

\* The thread goes on after the test: lines 299-319.  first records, per
\* address, the class of the first thread that wrote it.
WorkerWrite(w) ==
  /\ workers.proc[w].pc = "write"
  /\ LET args == workers.proc[w].args
         pseudo_addr == PseudoAddr(args[2] \o "_" \o args[3])
         st == set_sim_procedure_write(Fields, args[1], args[2], args[3], args[4], EmptyDict)
     IN  /\ Store(st)
         /\ workers' = [workers EXCEPT !.proc[w].pc = "done",
                                       !.first = IF pseudo_addr \in DOMAIN @ THEN @
                                                 ELSE Put(@, pseudo_addr, args[4])]
  /\ UNCHANGED <<session, ops, last, javaVars>>

(***************************************************************************)
(* sim_run and sim_block: the dispatcher                                   *)
(***************************************************************************)
\* What a step returns or raises.  kind is "SimProcedure" (cls instantiated
\* at addr with kwargs), "SimIRSB" (a block lifted at addr, in thumb mode or
\* not) or the name of the exception raised; inspect lists the state's
\* inspection events of the step and, between them, the instantiation of the
\* class; debugger tells that ipdb.set_trace() ran.
Result(kind, cls, kwargs, addr, thumb, inspect, debugger) ==
  [kind |-> kind, cls |-> cls, kwargs |-> kwargs, addr |-> addr, thumb |-> thumb,
   inspect |-> inspect, debugger |-> debugger]

NoClass == <<>>

\* The narrow-mode flag is ignored: every unaligned address is refused.
sim_block_strict(state, addr_arg) ==
  LET addr == IF addr_arg = None THEN state.ip ELSE addr_arg
  IN  IF AddrMod(addr, arch.instruction_alignment) # 0
      THEN Result("AngrExitError", NoClass, EmptyDict, addr, FALSE, <<>>, TRUE)
      ELSE Result("SimIRSB", NoClass, EmptyDict, addr, FALSE, <<>>, FALSE)

\* Project.sim_block; state is [ip, thumb, raises], its architecture is arch;
\* raises tells whether a SimProcedure run on the state raises an exception.
sim_block(state, addr_arg) ==
  LET addr == IF addr_arg = None THEN state.ip ELSE addr_arg
      unaligned == AddrMod(addr, arch.instruction_alignment) # 0
  IN  IF unaligned /\ ~state.thumb
      THEN Result("AngrExitError", NoClass, EmptyDict, addr, FALSE, <<>>, TRUE)
      ELSE Result("SimIRSB", NoClass, EmptyDict, addr, unaligned /\ state.thumb, <<>>, FALSE)

Handler == SimProcedures["syscalls"]["handler"]

\* The registry is asked first, the transfer kind after it.
sim_run_model_first(state, jumpkind) ==
  LET addr == state.ip
  IN  IF is_sim_procedure(sim_procedures, addr)
      THEN Result("SimProcedure", sim_procedures[addr].proc, sim_procedures[addr].kwargs, addr, FALSE,
                  << <<"call", "BP_BEFORE", sim_procedures[addr].proc>>,
                     <<"call", "BP_AFTER", sim_procedures[addr].proc>> >>, FALSE)
      ELSE IF jumpkind = "Ijk_Sys_syscall"
              \/ jumpkind \in {"Ijk_EmFail", "Ijk_NoDecode", "Ijk_MapFail"}
              \/ Contains(jumpkind, "Ijk_Sig")
      THEN Result("SimProcedure", Handler, EmptyDict, addr, FALSE, <<>>, FALSE)
      ELSE sim_block(state, addr)

\* Project.sim_run
sim_run(state, jumpkind) ==
  LET addr == state.ip
  IN  IF jumpkind = "Ijk_Sys_syscall"
      THEN Result("SimProcedure", Handler, EmptyDict, addr, FALSE, <<>>, FALSE)
      ELSE IF jumpkind \in {"Ijk_EmFail", "Ijk_NoDecode", "Ijk_MapFail"}
              \/ Contains(jumpkind, "Ijk_Sig")
      THEN Result("SimProcedure", Handler, EmptyDict, addr, FALSE, <<>>, FALSE)
      ELSE IF is_sim_procedure(sim_procedures, addr)
      THEN LET sim_proc_class == sim_procedures[addr].proc
               kwargs == sim_procedures[addr].kwargs
           IN  IF state.raises
               THEN Result("Exception", sim_proc_class, kwargs, addr, FALSE,
                           << <<"call", "BP_BEFORE", sim_proc_class>>,
                              <<"new", "instance", sim_proc_class>> >>, FALSE)
               ELSE Result("SimProcedure", sim_proc_class, kwargs, addr, FALSE,
                           << <<"call", "BP_BEFORE", sim_proc_class>>,
                              <<"new", "instance", sim_proc_class>>,
                              <<"call", "BP_AFTER", sim_proc_class>> >>, FALSE)
      ELSE sim_block(state, addr)

\* The transfer kinds and the instruction pointers of the states stepped.
JumpKinds ==
  {"Ijk_Boring", "Ijk_Sys_syscall", "Ijk_EmFail", "Ijk_NoDecode", "Ijk_MapFail",
   "Ijk_SigTRAP", "Ijk_SigSEGV"}
Unaligned == <<8, 4, 160, 17>>
StepAddrs ==
  {PseudoAddr("libc.so.6___libc_start_main"), PseudoAddr("stubs_foo"),
   Wide(arch, InMain), Wide(arch, Unaligned)}

\* A step at a bound address drops the binding it used.
SimRunEvicting ==
  /\ \E ip \in StepAddrs, thumb \in BOOLEAN, raises \in BOOLEAN, jumpkind \in JumpKinds :
       LET state == [ip |-> ip, thumb |-> thumb, raises |-> raises]
       IN  /\ last' = [op |-> "sim_run", state |-> state, jumpkind |-> jumpkind,
                       bound |-> is_sim_procedure(sim_procedures, ip),
                       r |-> sim_run(state, jumpkind)]
           /\ sim_procedures' = [a \in DOMAIN sim_procedures \ {ip} |-> sim_procedures[a]]
  /\ UNCHANGED <<session, got, ida_imports, alloc_log, ops, workers, javaVars>>

SimRun ==
  /\ \E ip \in StepAddrs, thumb \in BOOLEAN, raises \in BOOLEAN, jumpkind \in JumpKinds :
       LET state == [ip |-> ip, thumb |-> thumb, raises |-> raises]
       IN  last' = [op |-> "sim_run", state |-> state, jumpkind |-> jumpkind,
                    bound |-> is_sim_procedure(sim_procedures, ip),
                    r |-> sim_run(state, jumpkind)]
  /\ UNCHANGED <<session, sim_procedures, got, ida_imports, alloc_log, ops, workers, javaVars>>

SimBlock ==
  /\ \E ip \in StepAddrs, thumb \in BOOLEAN, addr \in {None, Wide(arch, Unaligned)} :
       LET state == [ip |-> ip, thumb |-> thumb, raises |-> FALSE]
       IN  last' = [op |-> "sim_block", state |-> state, addr |-> addr,
                    r |-> sim_block(state, addr)]
  /\ UNCHANGED <<session, sim_procedures, got, ida_imports, alloc_log, ops, workers, javaVars>>

(***************************************************************************)
(* The Soot engine: java.util.Iterator                                     *)
(***************************************************************************)
\* Bounds: the size of a collection and the number of calls on its iterator.
MaxSize == 3
MaxCalls == 5

\* A 32-bit bitvector is the pair <<high 16 bits, low 16 bits>>.
Half == 2^16
BVV32(n) == <<(n \div Half) % Half, n % Half>>
\* BVV(eval(v) + 1, 32)
BVInc(v) ==
  IF v[2] + 1 < Half THEN <<v[1], v[2] + 1>> ELSE <<(v[1] + 1) % Half, 0>>
\* eval(a) < eval(b): the values are compared as unsigned integers.
BVLess(a, b) == a[1] < b[1] \/ (a[1] = b[1] /\ a[2] < b[2])

\* The fields of a collection (procedures/java_util/collection.py).
SIZE == "size"
INDEX == "index"
ELEMS == "elems"

\* this_ref.load_field and this_ref.store_field on the memory mem.
load_field(mem, ref, field) == mem.fields[<<ref, field>>]
store_field(mem, ref, field, value) == [mem EXCEPT !.fields[<<ref, field>>] = value]
\* javavm_memory.load_array_element; a read past the end of the array gives
\* a value that is no element of it.
load_array_element(mem, array_ref, idx) ==
  IF idx[1] = 0 /\ idx[2] < Len(mem.arrays[array_ref])
  THEN mem.arrays[array_ref][idx[2] + 1]
  ELSE "unconstrained"

\* IteratorHasNext.run
IteratorHasNext(mem, this_ref) ==
  LET iterator_size == load_field(mem, this_ref, SIZE)
      iterator_index == load_field(mem, this_ref, INDEX)
      has_next == BVLess(iterator_index, iterator_size)
  IN  [mem |-> mem, ret |-> has_next]

\* The element is read at the index as updated.
IteratorNextAfterUpdate(mem, this_ref) ==
  LET array_ref == load_field(mem, this_ref, ELEMS)
      new_iterator_index == BVInc(load_field(mem, this_ref, INDEX))
      mem1 == store_field(mem, this_ref, INDEX, new_iterator_index)
  IN  [mem |-> mem1, ret |-> load_array_element(mem1, array_ref, new_iterator_index)]

\* The call fails closed once the cursor has reached the size.
IteratorNextChecked(mem, this_ref) ==
  LET array_ref == load_field(mem, this_ref, ELEMS)
      iterator_index == load_field(mem, this_ref, INDEX)
      mem1 == store_field(mem, this_ref, INDEX, BVInc(iterator_index))
  IN  IF BVLess(iterator_index, load_field(mem, this_ref, SIZE))
      THEN [mem |-> mem1, ret |-> load_array_element(mem1, array_ref, iterator_index)]
      ELSE [mem |-> mem, ret |-> "NoSuchElementException"]

\* IteratorNext.run
IteratorNext(mem, this_ref) ==
  LET array_ref == load_field(mem, this_ref, ELEMS)
      iterator_index == load_field(mem, this_ref, INDEX)
      new_iterator_index == BVInc(iterator_index)
      mem1 == store_field(mem, this_ref, INDEX, new_iterator_index)
  IN  [mem |-> mem1, ret |-> load_array_element(mem1, array_ref, iterator_index)]

Elements == {"x", "y", "z"}
SeqsUpTo(S, n) == UNION {[1..k -> S] : k \in 0..n}

\* A collection of n elements with its cursor at 0.
IterInit ==
  /\ \E elems \in SeqsUpTo(Elements, MaxSize) :
       /\ javavm_memory =
            [fields |-> (<<"this", SIZE>> :> BVV32(Len(elems)))
                        @@ (<<"this", INDEX>> :> BVV32(0))
                        @@ (<<"this", ELEMS>> :> "array"),
             arrays |-> ("array" :> elems)]
       /\ it_hist = [elems |-> elems, calls |-> 0, nexts |-> 0, call |-> "new", ret |-> <<>>]

IterIdle ==
  /\ javavm_memory = [fields |-> EmptyDict, arrays |-> EmptyDict]
  /\ it_hist = [elems |-> <<>>, calls |-> 0, nexts |-> 0, call |-> "new", ret |-> <<>>]

HasNext ==
  /\ it_hist.calls < MaxCalls
  /\ LET r == IteratorHasNext(javavm_memory, "this")
     IN  /\ javavm_memory' = r.mem
         /\ it_hist' = [it_hist EXCEPT !.calls = @ + 1, !.call = "hasNext", !.ret = <<r.ret>>]
  /\ UNCHANGED <<projVars, soot_memory, str_hist>>

NextElement ==
  /\ it_hist.calls < MaxCalls
  /\ LET r == IteratorNext(javavm_memory, "this")
     IN  /\ javavm_memory' = r.mem
         /\ it_hist' = [it_hist EXCEPT !.calls = @ + 1, !.nexts = @ + 1,
                                       !.call = "next", !.ret = <<r.ret>>]
  /\ UNCHANGED <<projVars, soot_memory, str_hist>>

(***************************************************************************)
(* The Soot engine: string constants                                       *)
(***************************************************************************)
\* Bound on the number of string constants executed in one behaviour.
MaxStrings == 3

Quote == "\""

\* value.strip("\""): every leading and every trailing quote is dropped.
RECURSIVE LStrip(_)
LStrip(v) == IF v # <<>> /\ Head(v) = Quote THEN LStrip(Tail(v)) ELSE v
RECURSIVE RStrip(_)
RStrip(v) == IF v # <<>> /\ v[Len(v)] = Quote THEN RStrip(SubSeq(v, 1, Len(v) - 1)) ELSE v
Strip(v) == RStrip(LStrip(v))

\* state.memory.get_new_uuid(): an identifier that is not in use.
get_new_uuid(mem) == {u \in 1..(MaxStrings + 1) : <<"StringRef", u>> \notin DOMAIN mem}

\* state.memory.store(ref, value)
memory_store(mem, ref, value) == Put(mem, ref, value)

\* Equal literals share one reference.
StringConstantInterned(mem, value, uuid) ==
  LET str_val == Strip(value)
      known == {r \in DOMAIN mem : mem[r] = str_val}
      str_ref == IF known # {} THEN CHOOSE r \in known : TRUE ELSE <<"StringRef", uuid>>
  IN  [mem |-> memory_store(mem, str_ref, str_val), expr |-> str_ref]

\* SimSootExpr_StringConstant._execute (the second definition of the class,
\* which replaces the first) for the literal value and the identifier that
\* get_new_uuid returned.
StringConstant(mem, value, uuid) ==
  LET str_val == Strip(value)
      str_ref == <<"StringRef", uuid>>
  IN  [mem |-> memory_store(mem, str_ref, str_val), expr |-> str_ref]

\* The literals of the bytecode, as soot writes them (tuples of characters).
Literals ==
  { <<Quote, "h", "i", Quote>>,
    <<Quote, Quote>>,
    <<Quote, "a", Quote, "b", Quote>>,
    <<Quote, Quote, "q", Quote, Quote>>,
    <<"h", "i">> }

StrInit ==
  /\ soot_memory = EmptyDict
  /\ str_hist = <<>>

ExecuteStringConstant ==
  /\ Len(str_hist) < MaxStrings
  /\ \E value \in Literals : \E uuid \in get_new_uuid(soot_memory) :
       LET r == StringConstant(soot_memory, value, uuid)
       IN  /\ soot_memory' = r.mem
           /\ str_hist' = Append(str_hist, [value |-> value, expr |-> r.expr])
  /\ UNCHANGED <<projVars, javavm_memory, it_hist>>

(***************************************************************************)
(* Specifications                                                          *)
(***************************************************************************)
vars == <<projVars, javaVars>>

Init == ProjInit(Sessions) /\ IterIdle /\ StrInit

\* The registry under the binder and the two calls that write it.
Next ==
  \/ UseSimProcedures
  \/ SetSimProcedure
  \/ AddCustomSimProcedure

Spec == Init /\ [][Next]_vars

\* Stepping needs of a session its architecture and its registry.
RunSessions ==
  { Session(a, Loader(a, d, InMain, FALSE, InMain, TRUE, FALSE), NoExclusion) :
      a \in Architectures, d \in {<<"libc.so.6">>, <<"libz.so.1", "ld-linux.so.2">>} }

InitRun == ProjInit(RunSessions) /\ IterIdle /\ StrInit

\* Stepping a project whose registry the binder and custom hooks have filled.
NextRun ==
  \/ UseSimProcedures
  \/ AddCustomSimProcedure
  \/ SimRun
  \/ SimBlock

SpecRun == InitRun /\ [][NextRun]_vars

\* Two threads that call set_sim_procedure on one project.
NextPar == \E w \in Workers : WorkerCheck(w) \/ WorkerWrite(w)

SpecPar == InitRun /\ [][NextPar]_vars

JavaSession ==
  { Session(X86, Loader(X86, <<"libc.so.6">>, InMain, FALSE, InMain, TRUE, FALSE), NoExclusion) }

\* An iterator over a collection.
InitIter == ProjInit(JavaSession) /\ IterInit /\ StrInit

NextIter ==
  \/ HasNext
  \/ NextElement

SpecIter == InitIter /\ [][NextIter]_vars

\* The string constants of a Soot state.
InitStr == ProjInit(JavaSession) /\ IterIdle /\ StrInit

NextStr == ExecuteStringConstant

SpecStr == InitStr /\ [][NextStr]_vars

(***************************************************************************)
(* Properties                                                              *)
(***************************************************************************)
\* The entries of obj's jump table that have been redirected.
JumpTable(obj) == IF ld.ida[obj] THEN ida_imports[obj] ELSE got[obj]

\* The transfer kinds that go to the system-call / fault handler.
FaultKinds ==
  {"Ijk_Sys_syscall", "Ijk_EmFail", "Ijk_NoDecode", "Ijk_MapFail", "Ijk_SigTRAP", "Ijk_SigSEGV"}

\* C1: dispatch precedence. A step with a system-call or fault kind pending
\* goes to the handler even at a bound address, and the bound class is not
\* instantiated; the bound class is instantiated only when the kind is none
\* of these and the address is bound; a block is lifted only when neither
\* applies.
DispatchPrecedence ==
  last.op = "sim_run" =>
    LET r == last.r
        ip == last.state.ip
        bound == ip \in DOMAIN sim_procedures
        fault == last.jumpkind \in FaultKinds
    IN  /\ fault => r.kind = "SimProcedure" /\ r.cls = Handler /\ r.addr = ip /\ r.inspect = <<>>
        /\ (~fault /\ bound) =>
              /\ r.kind = (IF last.state.raises THEN "Exception" ELSE "SimProcedure")
              /\ r.cls = sim_procedures[ip].proc
              /\ r.kwargs = sim_procedures[ip].kwargs
              /\ r.inspect # <<>>
        /\ (~fault /\ ~bound) => r.kind \in {"SimIRSB", "AngrExitError"}

DispatchPrecedenceWitness ==
  /\ last.op = "sim_run"
  /\ last.jumpkind = "Ijk_Sys_syscall"
  /\ last.state.ip \in DOMAIN sim_procedures
  /\ last.r.cls = Handler

StoredConfig(func_name, cfg) ==
  LET c == IF cfg = None THEN EmptyDict ELSE cfg
  IN  IF func_name = "__libc_start_main" /\ "exit_addr" \notin DOMAIN c
      THEN c @@ ("exit_addr" :> PseudoAddr("__libc_start_main:exit"))
      ELSE c

LastAddr == PseudoAddr(last.lib \o "_" \o last.func_name)

\* C2 as stated: after a set_sim_procedure that writes the entry, the entry
\* is exactly (T, cfg) (None read as the empty configuration); a call with
\* another class leaves the entry as it was.
BindLookupExact ==
  last.op = "set_sim_procedure" =>
    /\ ~last.warned =>
          /\ is_sim_procedure(sim_procedures, LastAddr)
          /\ sim_procedures[LastAddr] =
               [proc |-> last.sim_proc,
                kwargs |-> IF last.kwargs = None THEN EmptyDict ELSE last.kwargs]
    /\ (last.was # <<>> /\ last.was[1].proc # last.sim_proc) =>
          sim_procedures[LastAddr] = last.was[1]

\* C2 (amended): after a set_sim_procedure that writes the entry, the address
\* is bound and its entry is (T, cfg'), where cfg' is cfg (None read as the
\* empty configuration) to which, for __libc_start_main without an exit_addr,
\* the address of the exit dependency is added; a call with another class at
\* a bound address is refused and leaves the entry as it was.
BindLookup ==
  last.op = "set_sim_procedure" =>
    /\ ~last.warned =>
          /\ is_sim_procedure(sim_procedures, LastAddr)
          /\ sim_procedures[LastAddr] =
               [proc |-> last.sim_proc, kwargs |-> StoredConfig(last.func_name, last.kwargs)]
    /\ (last.was # <<>> /\ last.was[1].proc # last.sim_proc) =>
          /\ last.warned
          /\ sim_procedures[LastAddr] = last.was[1]

BindLookupWitness ==
  /\ last.op = "set_sim_procedure"
  /\ last.was # <<>>
  /\ last.was[1].proc # last.sim_proc
  /\ last.was[1].kwargs # EmptyDict

\* C3: the allocator is pure and aligned. Every address computed for a
\* (library, symbol) pair, in whatever state of the registry, is the same
\* address, has the width of the architecture and is a multiple of its
\* instruction alignment.
AllocatorPureAligned ==
  /\ \A t1 \in alloc_log, t2 \in alloc_log :
       (t1[1] = t2[1] /\ t1[2] = t2[2]) => t1[3] = t2[3]
  /\ \A t \in alloc_log :
       /\ Len(t[3]) * 8 = arch.bits
       /\ t[3][Len(t[3])] % arch.instruction_alignment = 0

AllocatorPureAlignedWitness ==
  /\ last.op = "use_sim_procedures"
  /\ last.again
  /\ arch.instruction_alignment = 4
  /\ Cardinality(alloc_log) > 2

BinderStep == last'.op = "use_sim_procedures" /\ ops' = ops + 1

\* C4: the binder is idempotent. A binder run that follows a complete binder
\* run ends without error and leaves the registry and every object's jump
\* table as they were.
BinderIdempotent ==
  [][(last.op = "use_sim_procedures" /\ ~last.err /\ BinderStep) =>
       /\ ~last'.err
       /\ sim_procedures' = sim_procedures
       /\ got' = got
       /\ ida_imports' = ida_imports]_vars

BinderIdempotentWitness ==
  /\ last.op = "use_sim_procedures"
  /\ last.again
  /\ ~last.err
  /\ Cardinality(DOMAIN sim_procedures) > 3
  /\ \A o \in ObjectSet : JumpTable(o) # EmptyDict

\* C6: the iterator round trip. On a collection of n elements e0..e(n-1)
\* whose cursor started at 0, as long as at most n calls of next were made:
\* hasNext returns whether the cursor is below n and changes no field (the
\* size, the storage and its elements are as created and the cursor is the
\* number of next calls made); the k-th next returns e(k-1); so after the
\* n-th next the cursor is n and hasNext returns false.
IterRoundTrip ==
  LET n == Len(it_hist.elems)
      k == it_hist.nexts
  IN  (it_hist.call # "new" /\ k <= n) =>
        /\ javavm_memory.fields[<<"this", INDEX>>] = <<0, k>>
        /\ javavm_memory.fields[<<"this", SIZE>>] = <<0, n>>
        /\ javavm_memory.fields[<<"this", ELEMS>>] = "array"
        /\ javavm_memory.arrays["array"] = it_hist.elems
        /\ it_hist.call = "hasNext" => it_hist.ret = <<k < n>>
        /\ it_hist.call = "next" => it_hist.ret = <<it_hist.elems[k]>>

IterRoundTripWitness ==
  /\ Len(it_hist.elems) = 3
  /\ it_hist.nexts = 3
  /\ it_hist.calls = 5
  /\ it_hist.call = "hasNext"
  /\ it_hist.ret = <<FALSE>>

Quotes(n) == [k \in 1..n |-> Quote]

\* v is the literal value without the quotes around it.
Unquoted(value, v) ==
  /\ v # <<>> => (Head(v) # Quote /\ v[Len(v)] # Quote)
  /\ \E a \in 0..Len(value), b \in 0..Len(value) : value = Quotes(a) \o v \o Quotes(b)

\* C7: string constants go through a fresh indirection. The references that
\* the executed string constants evaluated to are pairwise distinct, also
\* for equal literals, and each of them holds, at any later time, the literal
\* without the quotes around it.
StringIndirection ==
  /\ \A j \in 1..Len(str_hist), k \in 1..Len(str_hist) :
       j # k => str_hist[j].expr # str_hist[k].expr
  /\ \A k \in 1..Len(str_hist) :
       /\ str_hist[k].expr \in DOMAIN soot_memory
       /\ Unquoted(str_hist[k].value, soot_memory[str_hist[k].expr])

StringIndirectionWitness ==
  /\ Len(str_hist) = 3
  /\ str_hist[1].value = <<Quote, "h", "i", Quote>>
  /\ str_hist[2].value = str_hist[1].value
  /\ str_hist[3].value = <<Quote, "a", Quote, "b", Quote>>
  /\ soot_memory[str_hist[1].expr] = <<"h", "i">>

\* C8: no silent overwrite. An address that holds a binding of class T holds
\* a binding of class T after every registry-writing call.
NoSilentOverwrite ==
  [][\A a \in DOMAIN sim_procedures :
        /\ a \in DOMAIN sim_procedures'
        /\ sim_procedures'[a].proc = sim_procedures[a].proc]_vars

\* The candidate libraries, in the binder's order, that model the symbol i.
Candidates == find_sim_libraries(ld.dependencies)
Matching(i) == {k \in 1..Len(Candidates) : i \in DOMAIN SimProcedures[Candidates[k]]}
FirstMatch(i) == Candidates[CHOOSE k \in Matching(i) : \A j \in Matching(i) : k <= j]

\* C9: first match wins. After the binder run of a fresh project, every
\* import that is not excluded and that some candidate library models is
\* bound and patched once, to the class of the first candidate that models
\* it: the run did not fail, the jump-table entry is the address allocated
\* for the first candidate, and no address allocated for a later candidate
\* is bound.
FirstMatchWins ==
  (last.op = "use_sim_procedures" /\ ops = 1) =>
    \A obj \in ObjectSet : \A n \in 1..Len(ld.imports[obj]) :
      LET i == ld.imports[obj][n]
          first == PseudoAddr(FirstMatch(i) \o "_" \o i)
      IN  (~exclude_sim_procedure(i) /\ Matching(i) # {}) =>
            /\ ~last.err
            /\ i \in DOMAIN JumpTable(obj) /\ JumpTable(obj)[i] = first
            /\ first \in DOMAIN sim_procedures
            /\ sim_procedures[first].proc = SimProcedures[FirstMatch(i)][i]
            /\ \A k \in Matching(i) :
                 LET later == PseudoAddr(Candidates[k] \o "_" \o i)
                 IN  later # first => later \notin DOMAIN sim_procedures

\* The address of the ReturnUnconstrained fallback of the import i.
StubAddr(i) == PseudoAddr("stubs" \o "_" \o i)
ReturnUnconstrained == SimProcedures["stubs"]["ReturnUnconstrained"]

InRange(o, a) == AddrLeq(ld.min_addr[o], a) /\ AddrLeq(a, ld.max_addr[o])

\* The import i of obj resolves to an address inside a loaded object.
NativePresent(obj, i) ==
  /\ i \in ld.resolved_imports[obj]
  /\ i \in DOMAIN ld.jmprel[obj]
  /\ \E o \in ObjectSet : InRange(o, ld.jmprel[obj][i])

Deferred(obj, i) ==
  /\ i \in ld.resolved_imports[obj]
  /\ i \notin ignore_functions
  /\ i \in DOMAIN ld.jmprel[obj]
  /\ ~InRange(obj, ld.jmprel[obj][i])

Symbols == UNION {{ld.imports[o][n] : n \in 1..Len(ld.imports[o])} : o \in ObjectSet}
HashedLibs == {"libc.so.6", "ld-linux.so.2", "stubs"}

\* The symbol i is in the exclusion list or the exclusion predicate holds of it.
Excluded(i) ==
  i \in exclude_sim_procedures \/ (exclude_fn # None /\ i \in exclude_fn.true_for)

HookSameAsBind ==
  \A f \in ArgFuncs : \A cfg \in ArgKwargs : \A T \in ArgClasses(f[1], f[2]) :
    LET a == PseudoAddr(f[1] \o "_" \o f[2])
        hooked == add_custom_sim_procedure(sim_procedures, a, T, cfg)
        bound == set_sim_procedure(Fields, "main", f[1], f[2], T, cfg).sp
    IN  f[2] # "__libc_start_main" =>
          /\ (a \in DOMAIN hooked) = (a \in DOMAIN bound)
          /\ a \in DOMAIN hooked => hooked[a] = bound[a]

\* C13: registry writes are atomic check-then-insert. When threads bind one
\* address concurrently, the class that the first of them wrote stays the
\* class of the address.
AtomicBind ==
  \A a \in DOMAIN workers.first : sim_procedures[a].proc = workers.first[a]

\* C14: the instantiation of a bound class is bracketed by the inspection
\* events. A step that takes the SimProcedure path observes the 'call' event
\* before, then instantiates the class, then observes the 'call' event after,
\* each once and for the class bound at the address; a step on the handler
\* path or on the native path observes neither.
HooksBracketModel ==
  last.op = "sim_run" =>
    LET r == last.r
        ip == last.state.ip
        model == last.jumpkind \notin FaultKinds /\ ip \in DOMAIN sim_procedures
    IN  IF model
        THEN r.inspect = << <<"call", "BP_BEFORE", sim_procedures[ip].proc>>,
                            <<"new", "instance", sim_procedures[ip].proc>>,
                            <<"call", "BP_AFTER", sim_procedures[ip].proc>> >>
        ELSE r.inspect = <<>>

\* C15: a dispatch step changes nothing of the session. Whatever the state,
\* the address and the transfer kind, and whichever path the step takes (the
\* alignment error included), sim_run leaves the registry and the jump
\* tables as they were.
StepIsReadOnly ==
  [][last'.op = "sim_run" =>
       /\ sim_procedures' = sim_procedures
       /\ got' = got
       /\ ida_imports' = ida_imports]_vars

StepIsReadOnlyWitness ==
  /\ last.op = "sim_run"
  /\ last.r.kind = "AngrExitError"
  /\ sim_procedures # EmptyDict
  /\ got["main"] # EmptyDict

ExitAddr == PseudoAddr("__libc_start_main:exit")
ExitClass == SimProcedures["libc.so.6"]["exit"]

\* C16: the exit dependency of the startup routine. A set_sim_procedure for
\* __libc_start_main with no exit_addr in its configuration that writes its
\* entry stores the address allocated for the exit dependency as exit_addr;
\* and in every state, an entry whose configuration names that address as
\* exit_addr finds it bound to the exit class.
ExitDependencyBound ==
  /\ (/\ last.op = "set_sim_procedure" /\ ~last.warned
      /\ last.func_name = "__libc_start_main"
      /\ (last.kwargs = None \/ "exit_addr" \notin DOMAIN last.kwargs)) =>
        /\ LastAddr \in DOMAIN sim_procedures
        /\ "exit_addr" \in DOMAIN sim_procedures[LastAddr].kwargs
        /\ sim_procedures[LastAddr].kwargs.exit_addr = ExitAddr
  /\ \A a \in DOMAIN sim_procedures :
       LET cfg == sim_procedures[a].kwargs
       IN  ("exit_addr" \in DOMAIN cfg /\ cfg.exit_addr = ExitAddr) =>
             /\ ExitAddr \in DOMAIN sim_procedures
             /\ sim_procedures[ExitAddr].proc = ExitClass

ExitDependencyBoundWitness ==
  /\ last.op = "set_sim_procedure" /\ ~last.warned
  /\ last.func_name = "__libc_start_main" /\ last.kwargs = None
  /\ last.sim_proc = UserHook
  /\ sim_procedures[LastAddr].kwargs.exit_addr = ExitAddr
  /\ sim_procedures[ExitAddr].proc = ExitClass

\* C17: a rejected binding has no effect besides the warning. A call of
\* set_sim_procedure whose address holds another class warns and leaves the
\* whole registry and every object's jump table as they were.
RejectedBindingNoEffect ==
  [][(/\ last'.op = "set_sim_procedure" /\ ops' = ops + 1
      /\ LET a == PseudoAddr(last'.lib \o "_" \o last'.func_name)
         IN  a \in DOMAIN sim_procedures /\ sim_procedures[a].proc # last'.sim_proc) =>
        /\ last'.warned
        /\ sim_procedures' = sim_procedures
        /\ got' = got
        /\ ida_imports' = ida_imports]_vars

RejectedBindingNoEffectWitness ==
  /\ last.op = "set_sim_procedure" /\ last.warned
  /\ last.func_name = "__libc_start_main" /\ last.kwargs = None
  /\ last.was # <<>> /\ last.was[1].proc # last.sim_proc
  /\ ExitAddr \notin DOMAIN sim_procedures
  /\ last.func_name \notin DOMAIN JumpTable(last.binary)

\* The unsigned value of a 32-bit bitvector.
BVValue(v) == v[1] * Half + v[2]

\* C18: next does no bounds checking. In every state of the collection, also
\* with the index at or past the size, a next call returns what the element
\* storage gives at the old index (the element at that index while the index
\* is inside the storage), stores the old index plus one in the index field
\* and leaves the size field and the element storage as they were.
NextNoBoundsCheck ==
  [][(it_hist'.call = "next" /\ it_hist'.calls = it_hist.calls + 1) =>
       LET old == javavm_memory.fields
           new == javavm_memory'.fields
           index == BVValue(old[<<"this", INDEX>>])
           elems == javavm_memory.arrays[old[<<"this", ELEMS>>]]
       IN  /\ it_hist'.ret = <<load_array_element(javavm_memory, old[<<"this", ELEMS>>],
                                                  old[<<"this", INDEX>>])>>
           /\ index < Len(elems) => it_hist'.ret = <<elems[index + 1]>>
           /\ BVValue(new[<<"this", INDEX>>]) = index + 1
           /\ new[<<"this", SIZE>>] = old[<<"this", SIZE>>]
           /\ new[<<"this", ELEMS>>] = old[<<"this", ELEMS>>]
           /\ javavm_memory'.arrays = javavm_memory.arrays]_vars

NextNoBoundsCheckWitness ==
  /\ it_hist.call = "next"
  /\ it_hist.nexts = Len(it_hist.elems) + 2
  /\ BVValue(javavm_memory.fields[<<"this", INDEX>>]) = it_hist.nexts
  /\ javavm_memory.fields[<<"this", SIZE>>] = BVV32(Len(it_hist.elems))
  /\ javavm_memory.arrays["array"] = it_hist.elems

\* C19: the binder touches an object's jump table only for the object's own
\* imports. Every call of set_sim_procedure that a binder run makes for an
\* object names a symbol that the object imports, and after the binder run
\* of a fresh project every patched entry of an object's jump table is for
\* one of its imports.
OwnImportsOnly ==
  last.op = "use_sim_procedures" =>
    /\ \A c \in last.calls : InSeq(c.func_name, ld.imports[c.binary])
    /\ ops = 1 =>
         \A obj \in ObjectSet : \A i \in DOMAIN JumpTable(obj) : InSeq(i, ld.imports[obj])

\* C20: jump tables point at bound addresses. After every call of
\* set_sim_procedure and every binder run, each patched entry of each
\* object's jump table targets an address that is bound; an entry that the
\* step has patched targets the address of a call made in the step for that
\* object and symbol, bound to the class that the call asked for, and an
\* entry that the step has not changed targets the class it targeted before.
JumpTablesPointAtBound ==
  [][\A obj \in ObjectSet : \A i \in DOMAIN JumpTable(obj)' :
       LET a == JumpTable(obj)'[i]
           patched == i \notin DOMAIN JumpTable(obj) \/ JumpTable(obj)[i] # a
       IN  /\ a \in DOMAIN sim_procedures'
           /\ IF patched
              THEN \/ /\ last'.op = "set_sim_procedure"
                      /\ last'.binary = obj /\ last'.func_name = i
                      /\ a = PseudoAddr(last'.lib \o "_" \o i)
                      /\ sim_procedures'[a].proc = last'.sim_proc
                   \/ /\ last'.op = "use_sim_procedures"
                      /\ \E c \in last'.calls :
                           /\ c.binary = obj /\ c.func_name = i /\ c.wrote
                           /\ a = PseudoAddr(c.lib \o "_" \o i)
                           /\ sim_procedures'[a].proc = c.sim_proc
              ELSE /\ a \in DOMAIN sim_procedures
                   /\ sim_procedures'[a].proc = sim_procedures[a].proc]_vars

JumpTablesPointAtBoundWitness ==
  /\ ops = 2
  /\ last.op = "set_sim_procedure" /\ ~last.warned /\ last.sim_proc = UserHook
  /\ last.binary = "libfoo.so" /\ last.lib = "libc.so.6" /\ last.func_name = "foo"
  /\ JumpTable("libfoo.so")["foo"] = LastAddr
  /\ sim_procedures[LastAddr].proc = UserHook
  /\ "foo" \in DOMAIN JumpTable("main") /\ JumpTable("main")["foo"] = StubAddr("foo")
  /\ sim_procedures[StubAddr("foo")].proc = ReturnUnconstrained

====
